---- MODULE Spec2Model ----
(***************************************************************************)
(* Chain-swap client sessions of ark-chain-swaps.                          *)
(*                                                                         *)
(* src/arkToBtc.ts      : ARK -> BTC, the user builds, co-signs and        *)
(*                        broadcasts the claim transaction ("ArkToBtc").   *)
(* src/unnamed/part_000 : BTC -> ARK, the user only contributes a partial  *)
(*                        signature to the service's claim ("BtcToArk").   *)
(*                                                                         *)
(* Both scripts create a swap, open a WebSocket, subscribe to the swap's   *)
(* updates and register an ASYNC "message" listener.  The event loop does  *)
(* not wait for the promise an async listener returns: a listener runs     *)
(* synchronously up to its first `await`, and the next message may be      *)
(* dispatched while it is suspended.  Every synchronous segment of a       *)
(* listener is one atomic step of the model; every `await fetch(...)`      *)
(* (with the `await ....json()` that follows it) is a suspension point.    *)
(*                                                                         *)
(* boltz-core (Musig, TaprootUtils, detectSwap, ...) is an external        *)
(* library; its objects are modelled by the data the calls of the scripts  *)
(* put into them.                                                          *)
(***************************************************************************)
EXTENDS Integers, Sequences, FiniteSets, TLC

VARIABLES
    dir,        \* which of the two scripts runs
    preimage,   \* const preimage = randomBytes(32)
    request,    \* body of POST /v2/swap/chain
    created,    \* createdResponse
    ws,         \* the WebSocket: "connecting", "open", "closed" (by close()),
                \* "terminated" (dropped when the process exited)
    subscribed, \* ids sent in the subscribe operation
    handlers,   \* one record per invocation of the message listener, in arrival order
    nonceCtr,   \* number of secret nonces drawn so far (generateNonce)
    process     \* the node process: "running"; "exiting" (a listener threw while a
                \* frame was dispatched, the exception is rethrown on the next tick);
                \* "exited" (code 1, uncaught exception)

vars == <<dir, preimage, request, created, ws, subscribed, handlers, nonceCtr, process>>

----------------------------------------------------------------------------
(* Bounds of the model *)

\* messages delivered to the listener in the free-running specification
MaxEvents == 2
\* quote amounts offered by the service: 1..MaxQuote
MaxQuote == 1

----------------------------------------------------------------------------
(* Values *)

Nil == "nil"

Directions == {"ArkToBtc", "BtcToArk"}

Preimages == {"p1", "p2"}

\* sha256(preimage), hex encoded
Sha256(p) == <<"sha256", p>>

\* secp256k1.getPublicKey(claimKeys) / secp256k1.getPublicKey(refundKeys)
UserKey == "kUser"
\* the Ark public key of the other leg
arkPublicKey == "kArk"
\* keys the service can name
ServerKey == "kServer"
ForeignKey == "kForeign"

OwnId == "swapA"
OtherId == "swapB"

SwapTree == "tree"

\* Musig.create(key, publicKeys) followed by TaprootUtils.tweakMusig(musig, tree):
\* the aggregate key is determined by the participant set and the tweak
TweakedAggKey(keys, tree) == [keys |-> keys, tree |-> tree]

\* the key the service should have published for this swap
HonestLockupKey == TweakedAggKey({ServerKey, UserKey}, SwapTree)
BogusLockupKey == TweakedAggKey({ForeignKey}, SwapTree)

----------------------------------------------------------------------------
(* Transactions *)

\* the lockup transaction carried by a "transaction.server.mempool" update
LockupTx(id, outKey) == [id |-> id, outKey |-> outKey]

LockupTxs == {LockupTx("lockGood", HonestLockupKey), LockupTx("lockElsewhere", BogusLockupKey)}

\* msg.args[0].transaction of an update that carries none
NoTx == [id |-> Nil, outKey |-> BogusLockupKey]

\* detectSwap that returns an output whatever key it pays
detectSwap_Any(aggPubkey, lockupTx) ==
    <<[script |-> aggPubkey, vout |-> 0, transactionId |-> lockupTx.id]>>

\* detectSwap(musig.aggPubkey, lockupTx): the output of the transaction that pays
\* to the key, or undefined (the empty tuple)
detectSwap(aggPubkey, lockupTx) ==
    IF lockupTx.outKey = aggPubkey
    THEN <<[script |-> aggPubkey, vout |-> 0, transactionId |-> lockupTx.id]>>
    ELSE <<>>

destinationAddress == "bcrt1qtrtsds7f6su9jgqg24r5w7k8sfw76szl626v93"

NoClaimTx == [spends |-> Nil, vout |-> 0, dest |-> Nil, preimage |-> Nil, cooperative |-> FALSE, witness |-> <<>>]

\* constructClaimTransaction([{preimage, ..., transactionId, vout, cooperative: true}], destination, fee)
constructClaimTransaction(utxo, dest) ==
    [spends |-> utxo.transactionId, vout |-> utxo.vout, dest |-> dest,
     preimage |-> preimage, cooperative |-> TRUE, witness |-> <<>>]

\* claimTx.preimageWitnessV1(0, [script], SigHash.DEFAULT, [amount]): the witness is not signed
preimageWitnessV1(tx, index, script) == <<"sighash", tx.spends, tx.vout, tx.dest, index, script>>

\* updateInput that attaches nothing
updateInput_Unsigned(tx, sig) == tx

\* claimTx.updateInput(0, { finalScriptWitness: [signature] })
updateInput(tx, sig) == [tx EXCEPT !.witness = <<sig>>]

----------------------------------------------------------------------------
(* MuSig2 objects of boltz-core, by the data the calls put into them *)

NoMusig ==
    [keys |-> {}, tree |-> Nil, message |-> <<>>, nonce |-> <<>>,
     peerKey |-> Nil, peerNonce |-> <<>>, session |-> FALSE,
     peerPartial |-> <<>>, ourPartial |-> <<>>, aggregate |-> <<>>, trace |-> <<>>]

\* Musig.create(privateKey, publicKeys)
MusigCreate(publicKeys) == [NoMusig EXCEPT !.keys = publicKeys, !.trace = <<"create">>]

\* TaprootUtils.tweakMusig(musig, tree)
tweakMusig(musig, tree) == [musig EXCEPT !.tree = tree, !.trace = Append(@, "tweakMusig")]

\* musig.aggPubkey
aggPubkey(musig) == TweakedAggKey(musig.keys, musig.tree)

\* musig.message(msg)
message(musig, msg) == [musig EXCEPT !.message = msg, !.trace = Append(@, "message")]

\* generateNonce with a nonce derived without fresh randomness
generateNonce_Fixed(musig) ==
    [musig EXCEPT !.nonce = <<"user", 1>>, !.trace = Append(@, "generateNonce")]

\* .generateNonce(): a nonce drawn from fresh randomness
generateNonce(musig) ==
    [musig EXCEPT !.nonce = <<"user", nonceCtr + 1>>, !.trace = Append(@, "generateNonce")]

\* what a call into boltz-core does with data that came from the service: the
\* scripts neither test the data nor catch an exception, and the library is no part
\* of the source, so a call may return or throw whatever it is handed
Outcomes == {"returns", "throws"}

\* the outcomes of the two calls that are handed a key of the service together with
\* a nonce (aggregateNonces) or a partial signature (addPartial) of the service
LibraryOutcomes == [onNonces : Outcomes, onPartial : Outcomes]

\* .aggregateNonces([[publicKey, nonce]]), when it returns
aggregateNonces(musig, publicKey, nonce) ==
    [musig EXCEPT !.peerKey = publicKey, !.peerNonce = nonce,
                  !.trace = Append(@, "aggregateNonces")]

\* .initializeSession()
initializeSession(musig) ==
    [musig EXCEPT !.session = TRUE, !.trace = Append(@, "initializeSession")]

\* a partial signature of `key` in a session over `msg` with the two public nonces
PartialSig(key, aggKey, nonces, msg) == <<"partial", key, aggKey, nonces, msg>>

SessionNonces(musig) == {musig.nonce, musig.peerNonce}

\* .addPartial(publicKey, signature), when it returns
addPartial(musig, publicKey, signature) ==
    [musig EXCEPT !.peerPartial = signature, !.trace = Append(@, "addPartial")]

\* .signPartial()
signPartial(musig) ==
    [musig EXCEPT !.ourPartial =
        PartialSig(UserKey, aggPubkey(musig), SessionNonces(musig), musig.message),
                  !.trace = Append(@, "signPartial")]

\* .aggregatePartials()
aggregatePartials(musig) ==
    [musig EXCEPT !.aggregate =
        <<"schnorr", aggPubkey(musig), musig.message, {musig.ourPartial, musig.peerPartial}>>,
                  !.trace = Append(@, "aggregatePartials")]

----------------------------------------------------------------------------
(* Messages of the WebSocket *)

\* status tags the service enumerates for a chain swap
Statuses ==
    {"swap.created", "transaction.lockupFailed", "transaction.server.mempool",
     "transaction.claim.pending", "transaction.claimed"}

\* a status tag outside that set
OtherStatus == "transaction.mempool"

\* `json` is what JSON.parse makes of the frame: "object", "null", or "invalid"
\* (a text that is not JSON)
Update(id, status, tx) ==
    [json |-> "object", event |-> "update", id |-> id, status |-> status, tx |-> tx]

\* msg.args[0].status of a message that carries no args
NoArgs == "no args"

\* an update without args is Update(id, NoArgs, NoTx): JSON of the form
\* {"event": "update", "channel": "swap.update"}

\* a message that is not a status update and carries no args (a pong)
NonUpdate == [json |-> "object", event |-> "pong", id |-> Nil, status |-> NoArgs, tx |-> NoTx]

\* a text frame that is not JSON
NotJson == [json |-> "invalid", event |-> Nil, id |-> Nil, status |-> NoArgs, tx |-> NoTx]

\* the frame "null"
JsonNull == [json |-> "null", event |-> Nil, id |-> Nil, status |-> NoArgs, tx |-> NoTx]

Messages ==
    {NonUpdate, NotJson, JsonNull}
    \cup {Update(id, NoArgs, NoTx) : id \in {OwnId, OtherId}}
    \cup {Update(id, st, NoTx) :
            id \in {OwnId, OtherId},
            st \in (Statuses \cup {OtherStatus}) \ {"transaction.server.mempool"}}
    \cup {Update(id, "transaction.server.mempool", tx) :
            id \in {OwnId, OtherId}, tx \in LockupTxs \cup {NoTx}}

----------------------------------------------------------------------------
(* One invocation of the message listener *)

\* an outbound HTTP request; `open` records whether the WebSocket was open when it was issued
Call(kind, body) == [kind |-> kind, body |-> body, open |-> (ws = "open")]

NoSignedTxData == [pubNonce |-> <<>>, partialSignature |-> <<>>]

NewHandler(m) ==
    [ev |-> m, pc |-> "start", calls |-> <<>>, musig |-> NoMusig, quoteData |-> 0,
     claimTx |-> NoClaimTx, signedTxData |-> NoSignedTxData, nonceKey |-> Nil,
     closes |-> FALSE, error |-> Nil]

\* an exception leaves the async listener: its promise is rejected, nothing handles
\* the rejection (see Settle for what that does to the process)
Throw(h, what) == [h EXCEPT !.pc = "thrown", !.error = what]

\* case "transaction.lockupFailed", up to the first await: GET .../quote
LockupFailedStart(h) ==
    [h EXCEPT !.pc = "awaitQuoteGet", !.calls = Append(@, Call("quoteGet", <<>>))]

\* the POST with an amount other than the one fetched
LockupFailedQuote_OtherAmount(h, r) ==
    IF ~r.ok THEN Throw(h, "fetch")
    ELSE [h EXCEPT !.pc = "awaitQuotePost", !.quoteData = r.amount,
                   !.calls = Append(@, Call("quotePost", <<r.amount + 1>>))]

\* after the GET: POST { amount: quoteData.amount } to the same URL
LockupFailedQuote(h, r) ==
    IF ~r.ok THEN Throw(h, "fetch")
    ELSE [h EXCEPT !.pc = "awaitQuotePost", !.quoteData = r.amount,
                   !.calls = Append(@, Call("quotePost", <<r.amount>>))]

\* after the POST
LockupFailedDone(h, r) ==
    IF ~r.ok THEN Throw(h, "fetch") ELSE [h EXCEPT !.pc = "done"]

\* the claim with the nonce generated before the message is bound
ServerMempoolStart_NonceFirst(h) ==
    LET musig == tweakMusig(MusigCreate({created.serverPublicKey, UserKey}), created.swapTree)
        swapOutput == detectSwap(aggPubkey(musig), h.ev.tx)
    IN  IF h.ev.tx = NoTx THEN Throw(h, "TypeError")
        ELSE IF swapOutput = <<>>
        THEN Throw([h EXCEPT !.musig = musig], "TypeError")
        ELSE LET claimTx == constructClaimTransaction(swapOutput[1], destinationAddress)
                 musigMessage ==
                     message(generateNonce(musig),
                         preimageWitnessV1(claimTx, 0, swapOutput[1].script))
             IN  [h EXCEPT !.pc = "awaitClaimPost", !.musig = musigMessage,
                           !.claimTx = claimTx,
                           !.calls = Append(@,
                               Call("claimPost", <<preimage, musigMessage.nonce, claimTx>>))]

\* arkToBtc.ts, case "transaction.server.mempool", up to the first await:
\* the lockup transaction of the update (reading transaction.hex of an update
\* without one throws), key aggregation, detectSwap, claim transaction, message,
\* nonce, POST .../claim
ServerMempoolStart(h) ==
    LET musig == tweakMusig(MusigCreate({created.serverPublicKey, UserKey}), created.swapTree)
        swapOutput == detectSwap(aggPubkey(musig), h.ev.tx)
    IN  IF h.ev.tx = NoTx THEN Throw(h, "TypeError")
        ELSE IF swapOutput = <<>>
        THEN Throw([h EXCEPT !.musig = musig], "TypeError")
        ELSE LET claimTx == constructClaimTransaction(swapOutput[1], destinationAddress)
                 musigMessage ==
                     generateNonce(message(musig,
                         preimageWitnessV1(claimTx, 0, swapOutput[1].script)))
             IN  [h EXCEPT !.pc = "awaitClaimPost", !.musig = musigMessage,
                           !.claimTx = claimTx,
                           !.calls = Append(@,
                               Call("claimPost", <<preimage, musigMessage.nonce, claimTx>>))]

\* arkToBtc.ts, after the claim POST: nonce aggregation, session, the service's partial,
\* own partial, aggregation, witness, POST /v2/chain/BTC/transaction; `lib` is what
\* the two calls handed the service's data do; nonceKey is the key the script
\* passes with the service's nonce
ServerMempoolSigned(h, r, lib) ==
    IF ~r.ok THEN Throw(h, "fetch")
    ELSE LET signedTxData ==
                 [pubNonce |-> r.pubNonce, partialSignature |-> r.partialSignature]
             got == [h EXCEPT !.signedTxData = signedTxData,
                              !.nonceKey = created.serverPublicKey]
         IN  IF lib.onNonces = "throws" THEN Throw(got, "aggregateNonces")
             ELSE LET musigSession ==
                          initializeSession(
                              aggregateNonces(h.musig, created.serverPublicKey,
                                              signedTxData.pubNonce))
                  IN  IF lib.onPartial = "throws"
                      THEN Throw([got EXCEPT !.musig = musigSession], "addPartial")
                      ELSE LET musigSigned ==
                                   aggregatePartials(signPartial(
                                       addPartial(musigSession, created.serverPublicKey,
                                                  signedTxData.partialSignature)))
                               claimTx == updateInput(h.claimTx, musigSigned.aggregate)
                           IN  [got EXCEPT !.pc = "awaitBroadcast", !.musig = musigSigned,
                                           !.claimTx = claimTx,
                                           !.calls = Append(@, Call("broadcast", <<claimTx>>))]

\* arkToBtc.ts, after the broadcast
ServerMempoolDone(h, r) ==
    IF ~r.ok THEN Throw(h, "fetch") ELSE [h EXCEPT !.pc = "done"]

\* part_000, case "transaction.claim.pending", up to the first await: GET .../claim
ClaimPendingStart(h) ==
    [h EXCEPT !.pc = "awaitClaimGet", !.calls = Append(@, Call("claimGet", <<>>))]

\* the signing with signPartial called before the nonces are aggregated
ClaimPendingSign_SignFirst(h, r, lib) ==
    IF ~r.ok THEN Throw(h, "fetch")
    ELSE LET musig == tweakMusig(MusigCreate({r.publicKey, UserKey}), created.swapTree)
             withNonce == generateNonce(message(musig, r.transactionHash))
             called == [h EXCEPT !.nonceKey = created.serverPublicKey]
         IN  IF lib.onNonces = "throws"
             THEN Throw([called EXCEPT !.musig = withNonce], "aggregateNonces")
             ELSE LET partialSig ==
                          initializeSession(
                              aggregateNonces(signPartial(withNonce),
                                              created.serverPublicKey, r.pubNonce))
                  IN  [called EXCEPT !.pc = "awaitSigPost", !.musig = partialSig,
                                !.calls = Append(@,
                                    Call("signaturePost",
                                         <<partialSig.ourPartial, partialSig.nonce>>))]

\* part_000, after the GET: key aggregation with claimDetails.publicKey, message,
\* nonce, nonce aggregation under createdResponse.lockupDetails.serverPublicKey
\* (nonceKey), session, own partial, POST .../claim; `lib` is what the call handed
\* the service's data does
ClaimPendingSign(h, r, lib) ==
    IF ~r.ok THEN Throw(h, "fetch")
    ELSE LET musig == tweakMusig(MusigCreate({r.publicKey, UserKey}), created.swapTree)
             withNonce == generateNonce(message(musig, r.transactionHash))
             called == [h EXCEPT !.nonceKey = created.serverPublicKey]
         IN  IF lib.onNonces = "throws"
             THEN Throw([called EXCEPT !.musig = withNonce], "aggregateNonces")
             ELSE LET musigNonces ==
                          initializeSession(
                              aggregateNonces(withNonce, created.serverPublicKey, r.pubNonce))
                      partialSig == signPartial(musigNonces)
                  IN  [called EXCEPT !.pc = "awaitSigPost", !.musig = partialSig,
                                !.calls = Append(@,
                                    Call("signaturePost",
                                         <<partialSig.ourPartial, partialSig.nonce>>))]

\* part_000, after the signature POST
ClaimPendingDone(h, r) ==
    IF ~r.ok THEN Throw(h, "fetch") ELSE [h EXCEPT !.pc = "done"]

\* case "transaction.claimed": webSocket.close()
ClaimedCase(h) == [h EXCEPT !.pc = "done", !.closes = TRUE]

\* the switch with the claim.pending case in both scripts
StatusSwitch_BothSign(h) ==
    LET st == h.ev.status IN
    CASE st = NoArgs -> Throw(h, "TypeError")
      [] st = "swap.created" -> [h EXCEPT !.pc = "done"]
      [] st = "transaction.lockupFailed" -> LockupFailedStart(h)
      [] st = "transaction.server.mempool" /\ dir = "ArkToBtc" -> ServerMempoolStart(h)
      [] st = "transaction.server.mempool" /\ dir = "BtcToArk" -> [h EXCEPT !.pc = "done"]
      [] st = "transaction.claim.pending" -> ClaimPendingStart(h)
      [] st = "transaction.claimed" -> ClaimedCase(h)
      [] OTHER -> [h EXCEPT !.pc = "done"]

\* the switch with the claiming server.mempool case in both scripts
StatusSwitch_BothClaim(h) ==
    LET st == h.ev.status IN
    CASE st = NoArgs -> Throw(h, "TypeError")
      [] st = "swap.created" -> [h EXCEPT !.pc = "done"]
      [] st = "transaction.lockupFailed" -> LockupFailedStart(h)
      [] st = "transaction.server.mempool" -> ServerMempoolStart(h)
      [] st = "transaction.claim.pending" /\ dir = "BtcToArk" -> ClaimPendingStart(h)
      [] st = "transaction.claimed" -> ClaimedCase(h)
      [] OTHER -> [h EXCEPT !.pc = "done"]

\* the switch on msg.args[0].status; reading args[0] of a message without args throws
StatusSwitch(h) ==
    LET st == h.ev.status IN
    CASE st = NoArgs -> Throw(h, "TypeError")
      [] st = "swap.created" -> [h EXCEPT !.pc = "done"]
      [] st = "transaction.lockupFailed" -> LockupFailedStart(h)
      [] st = "transaction.server.mempool" /\ dir = "ArkToBtc" -> ServerMempoolStart(h)
      [] st = "transaction.server.mempool" /\ dir = "BtcToArk" -> [h EXCEPT !.pc = "done"]
      [] st = "transaction.claim.pending" /\ dir = "BtcToArk" -> ClaimPendingStart(h)
      [] st = "transaction.claimed" -> ClaimedCase(h)
      [] OTHER -> [h EXCEPT !.pc = "done"]

\* the listener without the test of msg.event
Listener_NoEventTest(m) ==
    IF m.json = "invalid" THEN Throw(NewHandler(m), "SyntaxError")
    ELSE IF m.json = "null" THEN Throw(NewHandler(m), "TypeError")
    ELSE StatusSwitch(NewHandler(m))

\* the listener from its start to its first await (or its end): JSON.parse throws
\* on a text that is not JSON, msg.event throws on null
Listener(m) ==
    IF m.json = "invalid" THEN Throw(NewHandler(m), "SyntaxError")
    ELSE IF m.json = "null" THEN Throw(NewHandler(m), "TypeError")
    ELSE IF m.event # "update"
    THEN [NewHandler(m) EXCEPT !.pc = "returned"]
    ELSE StatusSwitch(NewHandler(m))

----------------------------------------------------------------------------
(* Replies of the service *)

\* the public nonce of the service
ServiceNonce == <<"server", 1>>

\* GET .../quote: the request fails, or a body arrives; amount 0 stands for a body
\* without an amount (quoteData.amount is undefined)
QuoteGetReplies ==
    {[ok |-> FALSE, amount |-> 0]} \cup {[ok |-> TRUE, amount |-> a] : a \in 0..MaxQuote}

\* a POST whose body is only logged
PostReplies == {[ok |-> TRUE], [ok |-> FALSE]}

\* POST .../claim of arkToBtc.ts: the service's nonce and its partial signature,
\* over the message of the handler or over another one
ClaimPostReplies(h) ==
    {[ok |-> FALSE, pubNonce |-> <<>>, partialSignature |-> <<>>]}
    \cup {[ok |-> TRUE, pubNonce |-> ServiceNonce, partialSignature |-> sig] :
            sig \in {PartialSig(created.serverPublicKey, aggPubkey(h.musig),
                                {h.musig.nonce, ServiceNonce}, msg) :
                        msg \in {h.musig.message, <<"sighash", "another transaction">>}}}

\* GET .../claim of part_000: the service's nonce, its public key and the hash to sign
ClaimGetReplies ==
    {[ok |-> FALSE, pubNonce |-> <<>>, publicKey |-> Nil, transactionHash |-> <<>>]}
    \cup {[ok |-> TRUE, pubNonce |-> ServiceNonce, publicKey |-> k, transactionHash |-> t] :
            k \in {ServerKey, ForeignKey},
            t \in {<<"claimhash", "c1">>, <<"claimhash", "c2">>}}

----------------------------------------------------------------------------
(* The state machine *)

\* the creation request with a hash that is not the hash of the session's preimage
CreateRequest_StaleHash(d, p) ==
    [from |-> IF d = "ArkToBtc" THEN "ARK" ELSE "BTC",
     to |-> IF d = "ArkToBtc" THEN "BTC" ELSE "ARK",
     preimageHash |-> Sha256("p1"),
     claimPublicKey |-> IF d = "ArkToBtc" THEN UserKey ELSE arkPublicKey,
     refundPublicKey |-> IF d = "ArkToBtc" THEN arkPublicKey ELSE UserKey]

\* POST /v2/swap/chain
CreateRequest(d, p) ==
    [from |-> IF d = "ArkToBtc" THEN "ARK" ELSE "BTC",
     to |-> IF d = "ArkToBtc" THEN "BTC" ELSE "ARK",
     preimageHash |-> Sha256(p),
     claimPublicKey |-> IF d = "ArkToBtc" THEN UserKey ELSE arkPublicKey,
     refundPublicKey |-> IF d = "ArkToBtc" THEN arkPublicKey ELSE UserKey]

\* the response: the details of the leg the user signs for (claimDetails in
\* arkToBtc.ts, lockupDetails in part_000)
CreatedResponses ==
    {[id |-> OwnId, serverPublicKey |-> ServerKey, swapTree |-> SwapTree, lockupAddress |-> a] :
        a \in {HonestLockupKey, BogusLockupKey}}

Init ==
    /\ dir \in Directions
    /\ preimage \in Preimages
    /\ request = CreateRequest(dir, preimage)
    /\ created \in CreatedResponses
    /\ ws = "connecting"
    /\ subscribed = {}
    /\ handlers = <<>>
    /\ nonceCtr = 0
    /\ process = "running"

Pending(h) == h.pc \notin {"done", "returned", "thrown"}

Running == process = "running"

\* the socket of a process that exits: dropped without a close frame unless
\* close() was called before
Dropped(socket) == IF socket = "open" THEN "terminated" ELSE socket

\* what a finished segment leaves behind besides the handler: the nonce drawn and
\* the socket closed.  The listener is an async function with no try/catch, added
\* with addEventListener: when it throws, the rejection of its promise is rethrown
\* as an uncaught exception on the next tick and the process exits with code 1;
\* every suspended listener is lost.  `onThrow` is the state of the process after
\* a throw: "exiting" when the segment ran in the dispatch of a frame (the frames
\* read together with it are still dispatched before the next tick), "exited" when
\* it ran in the continuation of an await.
Settle(old, new, onThrow) ==
    /\ nonceCtr' = IF new.musig.nonce # old.musig.nonce THEN nonceCtr + 1 ELSE nonceCtr
    /\ process' = IF new.pc = "thrown" THEN onThrow ELSE process
    /\ ws' = IF new.closes THEN "closed"
             ELSE IF new.pc = "thrown" /\ onThrow = "exited" THEN Dropped(ws)
             ELSE ws
    /\ UNCHANGED <<dir, preimage, request, created, subscribed>>

\* webSocket "open": subscribe to the swap's updates
WsOpen ==
    /\ Running
    /\ ws = "connecting"
    /\ ws' = "open"
    /\ subscribed' = {created.id}
    /\ UNCHANGED <<dir, preimage, request, created, handlers, nonceCtr, process>>

\* webSocket "message": the listener runs to its first await.  Frames are still
\* dispatched between the throw of a listener and the exit of the process.
Deliver(m, limit) ==
    /\ process # "exited"
    /\ ws = "open" /\ Len(handlers) < limit
    /\ LET h == Listener(m) IN
        /\ handlers' = Append(handlers, h)
        /\ Settle(NewHandler(m), h, "exiting")

OnMessage == \E m \in Messages : Deliver(m, MaxEvents)

\* a suspended listener resumes with the reply r; none does once a listener threw
\* (the exit comes before the next reply is read)
Resume(i, new) ==
    /\ Running
    /\ handlers' = [handlers EXCEPT ![i] = new]
    /\ Settle(handlers[i], new, "exited")

At(i, pc) == handlers[i].pc = pc

QuoteFetched ==
    \E i \in 1..Len(handlers), r \in QuoteGetReplies :
        At(i, "awaitQuoteGet") /\ Resume(i, LockupFailedQuote(handlers[i], r))

QuotePosted ==
    \E i \in 1..Len(handlers), r \in PostReplies :
        At(i, "awaitQuotePost") /\ Resume(i, LockupFailedDone(handlers[i], r))

ClaimPosted ==
    \E i \in 1..Len(handlers) :
        /\ At(i, "awaitClaimPost")
        /\ \E r \in ClaimPostReplies(handlers[i]), lib \in LibraryOutcomes :
               Resume(i, ServerMempoolSigned(handlers[i], r, lib))

Broadcasted ==
    \E i \in 1..Len(handlers), r \in PostReplies :
        At(i, "awaitBroadcast") /\ Resume(i, ServerMempoolDone(handlers[i], r))

ClaimFetched ==
    \E i \in 1..Len(handlers), r \in ClaimGetReplies, lib \in LibraryOutcomes :
        At(i, "awaitClaimGet") /\ Resume(i, ClaimPendingSign(handlers[i], r, lib))

SignaturePosted ==
    \E i \in 1..Len(handlers), r \in PostReplies :
        At(i, "awaitSigPost") /\ Resume(i, ClaimPendingDone(handlers[i], r))

\* the next tick after a listener threw in the dispatch of a frame: the uncaught
\* exception ends the process with code 1
Exit ==
    /\ process = "exiting"
    /\ process' = "exited"
    /\ ws' = Dropped(ws)
    /\ UNCHANGED <<dir, preimage, request, created, subscribed, handlers, nonceCtr>>

Replies ==
    \/ QuoteFetched
    \/ QuotePosted
    \/ ClaimPosted
    \/ Broadcasted
    \/ ClaimFetched
    \/ SignaturePosted

Next ==
    \/ WsOpen
    \/ OnMessage
    \/ Replies
    \/ Exit

Spec == Init /\ [][Next]_vars

----------------------------------------------------------------------------
(* The same session fed one literal sequence of updates, each handled to its end
   before the next one arrives *)

LiteralSequence ==
    <<"swap.created", "transaction.lockupFailed", "transaction.server.mempool",
      "transaction.claim.pending", "transaction.claimed">>

Idle == \A i \in 1..Len(handlers) : ~Pending(handlers[i])

FeedNext ==
    /\ Idle
    /\ Len(handlers) < Len(LiteralSequence)
    /\ LET st == LiteralSequence[Len(handlers) + 1] IN
        \E tx \in (IF st = "transaction.server.mempool" THEN LockupTxs \cup {NoTx} ELSE {NoTx}) :
            Deliver(Update(OwnId, st, tx), Len(LiteralSequence))

NextSeq ==
    \/ WsOpen
    \/ FeedNext
    \/ Replies
    \/ Exit

SpecSeq == Init /\ [][NextSeq]_vars

----------------------------------------------------------------------------
(* Vocabulary of the properties *)

Hs == 1..Len(handlers)

Has(seq, x) == \E k \in 1..Len(seq) : seq[k] = x

\* first position of x in seq, 0 when absent
Pos(seq, x) == IF Has(seq, x) THEN CHOOSE k \in 1..Len(seq) : seq[k] = x /\ \A j \in 1..(k - 1) : seq[j] # x ELSE 0

Count(seq, x) == Cardinality({k \in 1..Len(seq) : seq[k] = x})

Kinds(h) == [k \in 1..Len(h.calls) |-> h.calls[k].kind]

\* the session states the code has no variable for: Claimed is the socket closed by
\* close(), a failed handling is a listener that threw (and took the process down)
Claimed == ws = "closed"
Failed(h) == h.pc = "thrown"
Exited == process = "exited"

\* handlers that entered the quote negotiation / that computed a partial signature
QuoteRuns == Cardinality({i \in Hs : Has(Kinds(handlers[i]), "quoteGet")})
SignRuns == Cardinality({i \in Hs : Has(handlers[i].musig.trace, "signPartial")})

TotalCalls(kind) == Cardinality({<<i, k>> \in Hs \X (1..4) :
                        k <= Len(handlers[i].calls) /\ handlers[i].calls[k].kind = kind})

NoFailure == \A i \in Hs : ~Failed(handlers[i])

----------------------------------------------------------------------------
(* C1 *)

LiteralFed == Len(handlers) = Len(LiteralSequence) /\ Idle

\* C1: once the literal sequence swap.created, lockupFailed, server.mempool,
\* claim.pending, claimed has been fed, each update handled to its end before the
\* next, the subscription is closed (Claimed), exactly one handler ran the quote
\* negotiation, which issued one GET and one POST, and at most one handler signed;
\* when no handling failed the process is running and exactly one handler ran the
\* cooperative signing.
C1_LiteralSequence ==
    LiteralFed =>
        /\ Claimed
        /\ QuoteRuns = 1
        /\ TotalCalls("quoteGet") = 1
        /\ TotalCalls("quotePost") = 1
        /\ SignRuns <= 1
        /\ NoFailure => (Running /\ SignRuns = 1)

C1_Witness == LiteralFed /\ NoFailure /\ Claimed /\ SignRuns = 1 /\ QuoteRuns = 1

----------------------------------------------------------------------------
(* C2 *)

\* the listeners suspended at an await; an exited process has none
InProgress == IF process # "exited" THEN {i \in Hs : Pending(handlers[i])} ELSE {}

\* C2: no two executions of the listener are in progress at the same time: the
\* handling of an update, with every call it awaits, ends before the next starts.
C2_OneAtATime == Cardinality(InProgress) <= 1

----------------------------------------------------------------------------
(* C3 *)

Untouched(h) ==
    /\ h.calls = <<>>
    /\ ~h.closes
    /\ h.musig = NoMusig
    /\ h.pc \in {"done", "returned"}

\* C3: an update whose swap id is not the session's own causes no outbound call,
\* no close and no signing, whatever its status.
C3_ForeignIdIgnored ==
    \A i \in Hs :
        (handlers[i].ev.event = "update" /\ handlers[i].ev.id # OwnId) => Untouched(handlers[i])

----------------------------------------------------------------------------
(* C4 *)

\* a message with an event category that is not "update", or an update whose args
\* carry a status tag outside the set
Ignorable(m) ==
    /\ m.json = "object"
    /\ m.event # "update" \/ (m.status # NoArgs /\ m.status \notin Statuses)

\* C4: the delivery of a message that is not an update, or of an update whose
\* status is outside the enumerated set, changes nothing but the record of the
\* delivery itself: no call, no error, no close, no nonce, no exit, the other
\* handlers as they were.
C4_IgnoredMessages ==
    [][(Len(handlers') = Len(handlers) + 1 /\ Ignorable(handlers'[Len(handlers')].ev)) =>
          /\ Untouched(handlers'[Len(handlers')])
          /\ handlers'[Len(handlers')].error = Nil
          /\ SubSeq(handlers', 1, Len(handlers)) = handlers
          /\ UNCHANGED <<dir, preimage, request, created, ws, subscribed, nonceCtr, process>>]_vars

C4_Witness ==
    \E i, j \in Hs :
        /\ handlers[i].ev.event # "update" /\ handlers[i].pc = "returned"
        /\ handlers[j].ev.event = "update" /\ handlers[j].ev.status = OtherStatus
        /\ handlers[j].pc = "done"

----------------------------------------------------------------------------
(* C5 *)

\* C5: a handler that has computed its partial signature had generated its own
\* nonce and aggregated it with the counterparty's nonce before, and the partial
\* signature is over both nonces.
C5_NonceBarrier ==
    \A i \in Hs :
        LET mu == handlers[i].musig IN
        Has(mu.trace, "signPartial") =>
            /\ 0 < Pos(mu.trace, "generateNonce")
            /\ Pos(mu.trace, "generateNonce") < Pos(mu.trace, "aggregateNonces")
            /\ Pos(mu.trace, "aggregateNonces") < Pos(mu.trace, "signPartial")
            /\ mu.nonce # <<>> /\ mu.peerNonce # <<>>
            /\ mu.ourPartial[4] = {mu.nonce, mu.peerNonce}

C5_Witness ==
    \E i \in Hs : Has(handlers[i].musig.trace, "signPartial") /\ handlers[i].musig.peerNonce = ServiceNonce

----------------------------------------------------------------------------
(* C6 *)

\* C6: no two signing attempts share their own nonce, whatever their messages,
\* and an attempt signs once.
C6_FreshNonces ==
    /\ \A i, j \in Hs :
        (i # j /\ handlers[i].musig.nonce # <<>> /\ handlers[j].musig.nonce # <<>>)
            => handlers[i].musig.nonce # handlers[j].musig.nonce
    /\ \A i \in Hs :
        /\ Count(handlers[i].musig.trace, "generateNonce") <= 1
        /\ Count(handlers[i].musig.trace, "signPartial") <= 1

C6_Witness ==
    \E i, j \in Hs :
        /\ handlers[i].musig.ourPartial # <<>> /\ handlers[j].musig.ourPartial # <<>>
        /\ handlers[i].musig.message # handlers[j].musig.message

----------------------------------------------------------------------------
(* C8 *)

\* C8: a handler that has generated a nonce holds an aggregate key equal to the
\* one the swap-creation response published.
C8_AggregateKeyChecked ==
    \A i \in Hs :
        handlers[i].musig.nonce # <<>> => aggPubkey(handlers[i].musig) = created.lockupAddress

----------------------------------------------------------------------------
(* C9 *)

\* C9: a handler of transaction.lockupFailed issues the quote GET first and at
\* most one POST after it, the POST carries the amount the GET returned, a handler
\* that went past the GET has issued exactly one of each, and no other handler
\* issues a quote call.
C9_QuoteFetchThenSubmit ==
    \A i \in Hs :
        LET h == handlers[i] IN
        IF h.ev.event = "update" /\ h.ev.status = "transaction.lockupFailed"
        THEN /\ Kinds(h) \in {<<"quoteGet">>, <<"quoteGet", "quotePost">>}
             /\ h.pc \in {"awaitQuotePost", "done"} => Kinds(h) = <<"quoteGet", "quotePost">>
             /\ Len(h.calls) = 2 => h.calls[2].body = <<h.quoteData>>
        ELSE ~Has(Kinds(h), "quoteGet") /\ ~Has(Kinds(h), "quotePost")

C9_Witness ==
    \E i \in Hs :
        /\ handlers[i].pc = "done"
        /\ Kinds(handlers[i]) = <<"quoteGet", "quotePost">>
        /\ handlers[i].quoteData > 0

----------------------------------------------------------------------------
(* C10 *)

\* C10: no outbound call is issued once the subscription has been closed.
C10_NoCallAfterClose ==
    \A i \in Hs : \A k \in 1..Len(handlers[i].calls) : handlers[i].calls[k].open

----------------------------------------------------------------------------
(* C11 *)

UpdateOf(i, st) == handlers[i].ev.event = "update" /\ handlers[i].ev.status = st

\* an earlier update announced the lockup
LockupSeenBefore(i) == \E j \in 1..(i - 1) : UpdateOf(j, "transaction.server.mempool")

\* an earlier handler had already submitted its claim when handler i started
ClaimSubmittedBefore(i) == \E j \in 1..(i - 1) : Has(Kinds(handlers[j]), "claimPost")

\* C11: an update the transition table does not enable where it arrives
\* (claim.pending or claimed before any lockup was announced, lockupFailed after
\* the claim was submitted) causes no call, no close and no signing.
C11_UnexpectedIgnored ==
    \A i \in Hs :
        (\/ (UpdateOf(i, "transaction.claim.pending") /\ ~LockupSeenBefore(i))
         \/ (UpdateOf(i, "transaction.claimed") /\ ~LockupSeenBefore(i))
         \/ (UpdateOf(i, "transaction.lockupFailed") /\ ClaimSubmittedBefore(i)))
            => Untouched(handlers[i])

----------------------------------------------------------------------------
(* C12 *)

ClaimsBuilt == {i \in Hs : handlers[i].claimTx # NoClaimTx}

\* C12: over the updates of one swap at most one claim transaction is built (and
\* so at most one is submitted for signing).
C12_ClaimBuiltOnce == Cardinality(ClaimsBuilt) <= 1

----------------------------------------------------------------------------
(* C13 *)

\* the claim submissions of handler i
ClaimPosts(i) == {k \in 1..Len(handlers[i].calls) : handlers[i].calls[k].kind = "claimPost"}

PreimageBound ==
    /\ request.preimageHash = Sha256(preimage)
    /\ \A i \in Hs : \A k \in ClaimPosts(i) :
        /\ handlers[i].calls[k].body[1] = preimage
        /\ Sha256(handlers[i].calls[k].body[1]) = request.preimageHash

\* C13: in every state the hash sent at creation is the hash of the preimage the
\* session holds, every claim submission reveals that preimage, and no step
\* changes the preimage or the hash sent.
C13_PreimageHash ==
    /\ []PreimageBound
    /\ [][preimage' = preimage /\ request' = request]_vars

C13_Witness ==
    \E i \in Hs : ClaimPosts(i) # {} /\ preimage = "p2" /\ handlers[i].claimTx.preimage = "p2"

----------------------------------------------------------------------------
(* C14 *)

\* the quote GET of the handler failed or returned a body without an amount
QuoteUnusable(i) ==
    /\ UpdateOf(i, "transaction.lockupFailed")
    /\ handlers[i].pc # "awaitQuoteGet"
    /\ handlers[i].quoteData = 0

\* C14: a handler whose quote fetch failed or returned a malformed body has
\* failed and has not gone on to the submission.
C14_FailureStops ==
    \A i \in Hs :
        QuoteUnusable(i) => Failed(handlers[i]) /\ Kinds(handlers[i]) = <<"quoteGet">>

----------------------------------------------------------------------------
(* C16 *)

Broadcasts(i) == {k \in 1..Len(handlers[i].calls) : handlers[i].calls[k].kind = "broadcast"}

\* C16: a broadcast of arkToBtc.ts follows the claim submission of the same
\* handler, whose reply gave the service's nonce and partial signature; the
\* handler has added that partial, signed its own and aggregated both, and the
\* transaction broadcast carries that aggregate as its witness.
C16_BroadcastSigned ==
    \A i \in Hs : \A k \in Broadcasts(i) :
        LET h == handlers[i]
            mu == handlers[i].musig
        IN  /\ dir = "ArkToBtc"
            /\ k > 1 /\ h.calls[k - 1].kind = "claimPost"
            /\ h.signedTxData # NoSignedTxData
            /\ mu.peerNonce = h.signedTxData.pubNonce /\ mu.peerNonce # <<>>
            /\ mu.peerPartial = h.signedTxData.partialSignature /\ mu.peerPartial # <<>>
            /\ mu.ourPartial # <<>>
            /\ 0 < Pos(mu.trace, "addPartial")
            /\ 0 < Pos(mu.trace, "signPartial")
            /\ Pos(mu.trace, "signPartial") < Pos(mu.trace, "aggregatePartials")
            /\ mu.aggregate # <<>>
            /\ mu.aggregate[4] = {mu.ourPartial, mu.peerPartial}
            /\ h.calls[k].body[1].witness = <<mu.aggregate>>

C16_Witness == \E i \in Hs : Broadcasts(i) # {} /\ handlers[i].pc = "done"

----------------------------------------------------------------------------
(* C17 *)

\* the calls of a signing attempt in the order of the script: key aggregation
\* (create, tweakMusig), message binding, nonce generation, nonce aggregation,
\* session initialization, partial signing and, in arkToBtc.ts, the service's
\* partial before and the aggregation after the own partial
SigningSteps(d) ==
    IF d = "ArkToBtc"
    THEN <<"create", "tweakMusig", "message", "generateNonce", "aggregateNonces",
           "initializeSession", "addPartial", "signPartial", "aggregatePartials">>
    ELSE <<"create", "tweakMusig", "message", "generateNonce", "aggregateNonces",
           "initializeSession", "signPartial">>

IsPrefix(a, b) == Len(a) <= Len(b) /\ a = SubSeq(b, 1, Len(a))

\* C17: the calls of every signing attempt are an initial part of that order (an
\* attempt may abort, it never reorders or skips), and an attempt that has signed
\* went through all of it.
C17_StepOrder ==
    \A i \in Hs :
        LET mu == handlers[i].musig IN
        /\ IsPrefix(mu.trace, SigningSteps(dir))
        /\ mu.ourPartial # <<>> => mu.trace = SigningSteps(dir)
        /\ Has(Kinds(handlers[i]), "claimPost") => Len(mu.trace) >= 4

C17_Witness ==
    \E i \in Hs :
        /\ dir = "ArkToBtc"
        /\ handlers[i].musig.trace = SigningSteps("ArkToBtc")
        /\ handlers[i].musig.aggregate # <<>>

----------------------------------------------------------------------------
(* C18 *)

\* C18: in every signing attempt the key the script passes with the counterparty's
\* nonce is the counterparty key it passed to the key aggregation of that attempt
\* (whether the call then returns or throws).
C18_NonceKeyIsParticipant ==
    \A i \in Hs :
        LET h == handlers[i] IN
        h.nonceKey # Nil =>
            /\ h.nonceKey # UserKey
            /\ h.musig.keys = {UserKey, h.nonceKey}

----------------------------------------------------------------------------
(* C19 *)

\* the update of the handler announced a lockup transaction paying the key the
\* session derives from its own key, the service's key and the swap tree
LockupPaysDerivedKey(h) ==
    /\ h.ev.event = "update"
    /\ h.ev.status = "transaction.server.mempool"
    /\ h.ev.tx.outKey = TweakedAggKey({created.serverPublicKey, UserKey}, created.swapTree)

\* C19: the only call that carries the preimage is the claim submission of
\* arkToBtc.ts, the first call of a handler whose update announced a lockup
\* transaction paying the derived key; a handler that found no such output has
\* issued no call.
C19_PreimageAfterLockup ==
    \A i \in Hs :
        /\ \A k \in ClaimPosts(i) :
            /\ dir = "ArkToBtc"
            /\ k = 1
            /\ LockupPaysDerivedKey(handlers[i])
        /\ (UpdateOf(i, "transaction.server.mempool") /\ ~LockupPaysDerivedKey(handlers[i]))
              => handlers[i].calls = <<>>

C19_Witness ==
    \E i, j \in Hs :
        /\ ClaimPosts(i) # {} /\ handlers[i].calls[1].body[1] = preimage
        /\ dir = "ArkToBtc" /\ UpdateOf(j, "transaction.server.mempool")
        /\ ~LockupPaysDerivedKey(handlers[j]) /\ Failed(handlers[j])

----------------------------------------------------------------------------
(* C20 *)

\* C20: part_000 never broadcasts and never submits a claim with the preimage;
\* a handler of transaction.claim.pending issues the claim GET and then at most
\* one POST of its own partial signature and public nonce, exactly one once it
\* has signed, and no other handler issues either.
C20_ServiceClaimsOnlySigns ==
    dir = "BtcToArk" =>
        \A i \in Hs :
            LET h == handlers[i] IN
            /\ ~Has(Kinds(h), "broadcast")
            /\ ~Has(Kinds(h), "claimPost")
            /\ IF UpdateOf(i, "transaction.claim.pending")
               THEN /\ Kinds(h) \in {<<"claimGet">>, <<"claimGet", "signaturePost">>}
                    /\ h.musig.ourPartial # <<>> <=> Len(h.calls) = 2
                    /\ Len(h.calls) = 2 =>
                          h.calls[2].body = <<h.musig.ourPartial, h.musig.nonce>>
               ELSE ~Has(Kinds(h), "claimGet") /\ ~Has(Kinds(h), "signaturePost")

C20_Witness ==
    \E i, j \in Hs :
        /\ dir = "BtcToArk"
        /\ Kinds(handlers[i]) = <<"claimGet", "signaturePost">> /\ handlers[i].pc = "done"
        /\ UpdateOf(j, "transaction.server.mempool") /\ handlers[j].pc = "done"

====
